---- MODULE Spec2Model ----
(***************************************************************************)
(* Model of the compression cache (src/src/CompressionCache.ts) and of the *)
(* processing pipeline of the integration (src/unnamed/part_002).          *)
(*                                                                         *)
(* JavaScript runs the hooks on one thread: every action below is one      *)
(* synchronous stretch of code between two suspension points.  What runs   *)
(* on the libuv thread pool (the stat of getCachedFile, the unlink of      *)
(* invalidateCache) is an action of its own that interleaves freely.       *)
(***************************************************************************)
EXTENDS Integers, Sequences, FiniteSets, TLC

\* ------------------------------------------------------------------ bounds
MaxContent == 3      \* file contents are 1..MaxContent
MaxFiles   == 2      \* candidate files in the output directory
MaxRuns    == 2      \* build:done runs in one behaviour
MaxEdits   == 1      \* candidates a build between two runs writes anew

\* ------------------------------------------------------------ file contents
Contents == 1..MaxContent

\* Buffer.length / fs.statSync(..).size of a content: its length in bytes.
ByteLen(c) == (c \div 2) + 1

\* String.length of the same content read as text (UTF-16 code units): odd
\* contents above 1 hold one two-byte character.
CharLen(c) == IF c > 1 /\ c % 2 = 1 THEN ByteLen(c) - 1 ELSE ByteLen(c)

\* createHash('sha256').update(content).digest('hex'), taken collision free.
Hash(c) == <<"sha256", c>>

\* ------------------------------------------------------------------- paths
\* A path is <<directory and base name, extension>>.
AllPaths == { <<"a", "css">>, <<"b", "css">>, <<"c", "png">>, <<"d", "txt">>,
              <<"e", "scss">> }

\* originalPath.split('.').pop(): a path is the sequence of its pieces between
\* the dots
Ext(p) == p[Len(p)]

\* String.prototype.toLowerCase on the extensions the model uses
ToLowerCase(e) ==
  CASE e = "CSS" -> "css"
    [] e = "PNG" -> "png"
    [] e = "JPG" -> "jpg"
    [] e = "Jpeg" -> "jpeg"
    [] e = "MJS" -> "mjs"
    [] e = "Cjs" -> "cjs"
    [] e = "TIF" -> "tif"
    [] e = "Cache" -> "cache"
    [] OTHER -> e

Null == [null |-> TRUE]

\* -------------------------------------------------------- settings objects
\* A JavaScript object is the sequence of its <<key, value>> pairs in
\* insertion order.
CssDefault  == << >>
CssNoRestructure == << <<"restructure", "false">> >>
PngDefault  == << <<"compressionLevel", "9">>, <<"palette", "true">> >>
JpegDefault == << <<"mozjpeg", "true">>, <<"trellisQuantisation", "true">>,
                 <<"overshootDeringing", "true">>, <<"optimizeScans", "true">> >>
JxlDefault  == << <<"effort", "9">> >>
WebpDefault == << <<"effort", "6">> >>
AvifDefault == << <<"effort", "9">> >>
HeifDefault == << <<"effort", "9">> >>
TiffDefault == << >>
GifDefault  == << <<"effort", "6">> >>
HtmlDefault == << <<"collapseWhitespace", "true">>, <<"removeComments", "true">>,
                 <<"minifyCSS", "true">>, <<"minifyJS", "true">>,
                 <<"continueOnParseError", "true">> >>
JsDefault   == << <<"compress", "true">>, <<"mangle", "true">> >>
SvgDefault  == << <<"multipass", "true">> >>
defaultCacheDir == "node_modules/.astro/.gab-astro-compress"
CacheOn     == << <<"enabled", "true">>, <<"cacheDir", defaultCacheDir>> >>
CacheOff    == << <<"enabled", "false">> >>
CacheCustom == << <<"enabled", "true">>, <<"cacheDir", "custom-cache">> >>
CacheNoDir  == << <<"enabled", "true">> >>

CssChoices == { CssDefault, CssNoRestructure }

\* The options a user passes to GabAstroCompress.
OptionChoices ==
  [ cache : {CacheOn, CacheOff}, css : CssChoices ]
    \cup [ cache : {CacheCustom, CacheNoDir}, css : {CssDefault} ]

\* o[k], "undefined" for a missing key
ObjGet(o, k) ==
  IF \E i \in 1..Len(o) : o[i][1] = k
  THEN (CHOOSE v \in { o[i][2] : i \in { j \in 1..Len(o) : o[j][1] = k } } : TRUE)
  ELSE "undefined"

\* { ...defaultConfig, ...options, png: {...}, ... }
MergeConfig(options) ==
  [ cache |-> options.cache, png |-> PngDefault, jpeg |-> JpegDefault,
    jxl |-> JxlDefault, webp |-> WebpDefault, avif |-> AvifDefault,
    heif |-> HeifDefault, tiff |-> TiffDefault, gif |-> GifDefault,
    html |-> HtmlDefault, js |-> JsDefault, svg |-> SvgDefault,
    css |-> options.css ]

\* the keys of compressionConfig
ConfigKeys == { "cache", "png", "jpeg", "jxl", "webp", "avif", "heif", "tiff",
                "gif", "html", "js", "svg", "css" }

getAliasForExtension_NoCjs(e) ==
  CASE e = "mjs" -> "js"
    [] e = "jpg" -> "jpeg"
    [] e = "tif" -> "tiff"
    [] OTHER -> "none"

getAliasForExtension(e) ==
  CASE e \in {"mjs", "cjs"} -> "js"
    [] e = "jpg" -> "jpeg"
    [] e = "tif" -> "tiff"
    [] OTHER -> "none"

getUsedConfig(cfg, p) ==
  LET fileExtension == ToLowerCase(Ext(p))
      configKey == IF fileExtension \in ConfigKeys THEN fileExtension
                   ELSE getAliasForExtension(fileExtension)
  IN  IF configKey \notin ConfigKeys THEN Null
      ELSE [ config |-> cfg[configKey], format |-> configKey ]

RECURSIVE StringifyObj(_)
StringifyObj(o) ==
  IF o = << >> THEN << >>
  ELSE <<Head(o)[1], Head(o)[2]>> \o StringifyObj(Tail(o))

\* JSON.stringify of a UsedFormatConfig
JSONstringify(u) ==
  IF u = Null THEN <<"null">>
  ELSE <<"config">> \o StringifyObj(u.config) \o <<"format", u.format>>

cacheEnabled_AnyCacheOption(cfg) == cfg.cache # << >>

\* compressionConfig.cache?.enabled
cacheEnabled(cfg) == ObjGet(cfg.cache, "enabled") = "true"

cacheDirOf_AlwaysDefault(cfg) == << "root", defaultCacheDir >>

\* path.join(config.root.pathname, compressionConfig.cache?.cacheDir || defaultCacheDir)
cacheDirOf(cfg) ==
  LET dir == ObjGet(cfg.cache, "cacheDir")
  IN  << "root", IF dir \in {"undefined", ""} THEN defaultCacheDir ELSE dir >>

\* deep equality of two settings objects: the same keys with the same values
ObjEq(a, b) == { a[i] : i \in 1..Len(a) } = { b[i] : i \in 1..Len(b) }

UsedEq(u, v) ==
  IF u = Null \/ v = Null THEN u = v
  ELSE u.format = v.format /\ ObjEq(u.config, v.config)

\* ------------------------------------------------------------------- state
VARIABLES
  disk,               \* output directory: candidate path -> content
  mtime,              \* candidate path -> written since the run started
  cacheDirExists,     \* the directories that exist under the project root
  artifacts,          \* cache directory: artifact file name -> content
  manifestFile,       \* manifest.json: missing, or the manifest it holds
  pendingUnlinks,     \* unlink requests handed to the thread pool
  compressionConfig,  \* the merged options of the integration instance
  originalSizeTotal, newSizeTotal, processedFiles, skippedFiles, cacheHits,
  manifest,           \* cacheManager.manifest (Null: no cacheManager)
  phase,              \* where the instance stands between and inside hooks
  runNo,              \* the runs started so far
  candidates,         \* build:done: the candidates the loop has not reached
  cur,                \* the candidate whose getCachedFile is awaited, as a set
  pc,                 \* per candidate: position of its unit of work
  originalContent,    \* per candidate: the bytes the loop read
  entry,              \* per candidate: getCachedFile's local `entry`
  statOk,             \* per candidate: outcome of the stat in getCachedFile
  result,             \* per candidate: what processFile returned
  outcome,            \* per candidate: the event logged for it in this run
  adapter,            \* the answers the compression adapters have given
  atStart,            \* disk, cache directory, `dirty` and the files counted so
                      \* far when the run started
  dirty,              \* the build rewrote a file or the settings changed
                      \* since the last completed run (or there was none)
  manifestWrites,     \* writes of manifest.json since the run started
  filePath,           \* getUsedConfig called on its own: the argument
  resolved,           \* getUsedConfig called on its own: what it returned
  tree,               \* traverseDirectory called on its own: the directory tree
  subTree             \* traverseDirectory called on its own: what it returned

vars == << disk, mtime, cacheDirExists, artifacts, manifestFile, pendingUnlinks,
           compressionConfig, originalSizeTotal, newSizeTotal, processedFiles,
           skippedFiles, cacheHits, manifest, phase, runNo, candidates,
           cur, pc, originalContent, entry, statOk, result, outcome, adapter,
           atStart, dirty, manifestWrites, filePath, resolved, tree, subTree >>

fsVars      == << disk, mtime, cacheDirExists, artifacts, manifestFile, pendingUnlinks,
                  manifestWrites >>
resolverVars == << filePath, resolved, tree, subTree >>
counterVars == << originalSizeTotal, newSizeTotal, processedFiles, skippedFiles, cacheHits >>
taskVars    == << candidates, cur, pc, originalContent, entry, statOk, result, outcome >>

files == DOMAIN disk

\* Date.now(), as coarse as the runs
Now == runNo

EmptyManifest == [ version |-> "1", entries |-> << >> ]

MissingFile == [ missing |-> TRUE ]

\* a manifest.json that JSON.parse rejects
CorruptFile == [ corrupt |-> TRUE ]

\* an exception instead of a value
Threw == [ threw |-> TRUE ]

\* getUsedConfig not called yet
Unset == [ unset |-> TRUE ]
NoPath == << "", "" >>

\* f without the key k
Without(f, k) == [ x \in (DOMAIN f) \ {k} |-> f[x] ]

\* f with f[k] = v, k new or not
With(f, k, v) == [ x \in (DOMAIN f) \cup {k} |-> IF x = k THEN v ELSE f[x] ]

Perms(S) == { q \in [1..Cardinality(S) -> S] : \A i, j \in 1..Cardinality(S) : q[i] = q[j] => i = j }

NoTasks(S) == [ p \in S |-> "idle" ]
NoLocals(S) == [ p \in S |-> Null ]

\* ----------------------------------------------------- construction, config
\* GabAstroCompress(options): the closure's variables
NewInstance(options) ==
  /\ compressionConfig' = MergeConfig(options)
  /\ originalSizeTotal' = 0
  /\ newSizeTotal' = 0
  /\ processedFiles' = 0
  /\ skippedFiles' = 0
  /\ cacheHits' = 0
  /\ manifest' = Null
  /\ phase' = "created"

\* The output directories looked at: up to MaxFiles candidates of one
\* extension (b.css only next to a.css: the two differ in name alone).
Directories ==
  { S \in SUBSET AllPaths :
      /\ Cardinality(S) \in 1..MaxFiles
      /\ \A p, q \in S : Ext(p) = Ext(q)
      /\ <<"b", "css">> \in S => <<"a", "css">> \in S }

InitOf(dirs, choices) ==
  /\ \E S \in dirs : disk \in [S -> Contents]
  /\ mtime = [ p \in DOMAIN disk |-> "old" ]
  /\ \E options \in choices : compressionConfig = MergeConfig(options)
  /\ manifestFile \in {MissingFile, CorruptFile}
  /\ cacheDirExists = IF manifestFile = MissingFile THEN {}
                      ELSE {cacheDirOf(compressionConfig)}
  /\ artifacts = << >>
  /\ pendingUnlinks = {}
  /\ manifestWrites = 0
  /\ filePath = NoPath
  /\ resolved = Unset
  /\ tree = {}
  /\ subTree = Unset
  /\ originalSizeTotal = 0
  /\ newSizeTotal = 0
  /\ processedFiles = 0
  /\ skippedFiles = 0
  /\ cacheHits = 0
  /\ manifest = Null
  /\ phase = "created"
  /\ runNo = 0
  /\ candidates = << >>
  /\ cur = {}
  /\ pc = NoTasks(DOMAIN disk)
  /\ originalContent = [ p \in DOMAIN disk |-> 0 ]
  /\ entry = NoLocals(DOMAIN disk)
  /\ statOk = [ p \in DOMAIN disk |-> FALSE ]
  /\ result = NoLocals(DOMAIN disk)
  /\ outcome = [ p \in DOMAIN disk |-> "none" ]
  /\ adapter = << >>
  /\ dirty = TRUE
  /\ atStart = [ disk |-> disk, artifacts |-> artifacts,
                 pending |-> pendingUnlinks, clean |-> ~dirty,
                 manifestFile |-> manifestFile, counted |-> 0 ]

Init == InitOf(Directories, OptionChoices)

\* A later build of the project creates the integration anew.  A project
\* switches caching on and off and changes its css settings; its cache
\* directory option stays what it is.
RecreateOf(choices, runs) ==
  /\ phase \in {"done", "rebuilt", "crashed", "killed"}
  /\ runNo < runs
  /\ \E options \in choices :
       /\ cacheDirOf(MergeConfig(options)) = cacheDirOf(compressionConfig)
       /\ options.cache \in {CacheCustom, CacheNoDir} => options.cache = compressionConfig.cache
       /\ compressionConfig.cache = CacheNoDir => options.cache = CacheNoDir
       /\ NewInstance(options)
       /\ dirty' = (dirty \/ phase \in {"crashed", "killed"} \/ MergeConfig(options) # compressionConfig)
  /\ candidates' = << >>
  /\ cur' = {}
  /\ pc' = NoTasks(files)
  /\ originalContent' = [ p \in files |-> 0 ]
  /\ entry' = NoLocals(files)
  /\ statOk' = [ p \in files |-> FALSE ]
  /\ result' = NoLocals(files)
  /\ outcome' = [ p \in files |-> "none" ]
  /\ UNCHANGED << resolverVars, fsVars, runNo, adapter, atStart >>

Recreate == RecreateOf(OptionChoices, MaxRuns)

\* loadManifest: JSON.parse(readFileSync(manifestPath)), or the exception
loadManifest(file) == IF file \in {MissingFile, CorruptFile} THEN Threw ELSE file

saveManifest_CandidatesOnly(m) ==
  [ m EXCEPT !.entries = [ p \in DOMAIN m.entries \cap files |-> m.entries[p] ] ]

\* saveManifest: the content of manifest.json after the write (a manifest holds
\* strings, numbers, null and objects of these: JSON gives it back as it was)
saveManifest(m) == m

initialize_NoSave(mem, file) ==
  LET loaded == loadManifest(file)
  IN  [ manifest |-> IF loaded = Threw THEN mem ELSE loaded, file |-> file, writes |-> 0 ]

\* initialize on a manager whose manifest is mem: the manifest in memory and
\* manifest.json afterwards, and the writes of manifest.json
initialize(mem, file) ==
  LET loaded == loadManifest(file)
  IN  IF loaded = Threw
      THEN [ manifest |-> mem, file |-> saveManifest(mem), writes |-> 1 ]
      ELSE [ manifest |-> loaded, file |-> file, writes |-> 0 ]

\* hook 'astro:config:done'
ConfigDoneIn(runs) ==
  /\ phase \in {"created", "done", "rebuilt"}
  /\ runNo < runs
  /\ IF cacheEnabled(compressionConfig)
     THEN /\ cacheDirExists' = cacheDirExists \cup {cacheDirOf(compressionConfig)}
          /\ LET init == initialize(EmptyManifest, manifestFile)
             IN  /\ manifest' = init.manifest
                 /\ manifestFile' = init.file
                 /\ manifestWrites' = manifestWrites + init.writes
     ELSE UNCHANGED << cacheDirExists, manifest, manifestFile, manifestWrites >>
  /\ phase' = "configured"
  /\ UNCHANGED << resolverVars, disk, mtime, artifacts, pendingUnlinks, compressionConfig,
                  counterVars, runNo, taskVars, adapter, atStart, dirty >>

ConfigDone == ConfigDoneIn(MaxRuns)

\* The project is built again: the build writes up to MaxEdits candidates
\* with other content before the hooks run.
RebuildIn(runs) ==
  /\ phase = "done"
  /\ runNo < runs
  /\ \E d \in [files -> Contents] :
       /\ d # disk
       /\ Cardinality({ p \in files : d[p] # disk[p] }) <= MaxEdits
       /\ disk' = d
  /\ phase' = "rebuilt"
  /\ dirty' = TRUE
  /\ UNCHANGED << resolverVars, mtime, cacheDirExists, artifacts, manifestFile, manifestWrites, pendingUnlinks,
                  compressionConfig, counterVars, manifest, runNo, taskVars,
                  adapter, atStart >>

Rebuild == RebuildIn(MaxRuns)

\* ---------------------------------------------------------- cache manager
cachedFilePath_NoExtension(p, hash) == << hash, "" >>

\* saveToCache: cachedFileName = `${originalHash}.${ext}` under cacheDir
cachedFilePath(p, hash) == << hash, Ext(p) >>

getCachedFileSync_NoHashCheck(entries, p, originalHash, settings) ==
  IF p \notin DOMAIN entries THEN "absent"
  ELSE IF JSONstringify(entries[p].settings) # JSONstringify(settings) THEN "invalidate"
  ELSE "stat"

\* getCachedFile up to its first suspension: "absent" (no entry), "invalidate"
\* (hash or settings mismatch) or "stat" (the artifact has to be looked at)
getCachedFileSync(entries, p, originalHash, settings) ==
  IF p \notin DOMAIN entries THEN "absent"
  ELSE IF entries[p].sourceHash # originalHash THEN "invalidate"
  ELSE IF JSONstringify(entries[p].settings) # JSONstringify(settings) THEN "invalidate"
  ELSE "stat"

invalidateCache_KeepsEntry(entries, p) == entries

invalidateCache_DropsAll(entries, p) == << >>

\* invalidateCache: the entries left in the manifest
invalidateCache(entries, p) == Without(entries, p)

CacheEntry_HashOfResult(p, originalHash, originalLength, compressedContent, settings) ==
  [ sourceHash     |-> Hash(compressedContent),
    compressedPath |-> cachedFilePath(p, originalHash),
    timestamp      |-> Now,
    settings       |-> settings,
    size           |-> [ original |-> ByteLen(compressedContent),
                         compressed |-> ByteLen(compressedContent) ] ]

\* saveToCache: the entry put into the manifest
CacheEntry(p, originalHash, originalLength, compressedContent, settings) ==
  [ sourceHash     |-> originalHash,
    compressedPath |-> cachedFilePath(p, originalHash),
    timestamp      |-> Now,
    settings       |-> settings,
    size           |-> [ original |-> originalLength,
                         compressed |-> ByteLen(compressedContent) ] ]

UnlinkExec_FailureStops ==
  /\ \E a \in pendingUnlinks :
       /\ pendingUnlinks' = pendingUnlinks \ {a}
       /\ artifacts' = IF a \in DOMAIN artifacts THEN Without(artifacts, a) ELSE artifacts
       /\ phase' = IF a \in DOMAIN artifacts THEN phase ELSE "crashed"
  /\ UNCHANGED << resolverVars, disk, mtime, cacheDirExists, manifestFile, manifestWrites, compressionConfig,
                  counterVars, manifest, runNo, taskVars, adapter,
                  atStart, dirty >>

\* the thread pool carries out an unlink of invalidateCache
UnlinkExec ==
  /\ \E a \in pendingUnlinks :
       /\ pendingUnlinks' = pendingUnlinks \ {a}
       /\ artifacts' = IF a \in DOMAIN artifacts THEN Without(artifacts, a) ELSE artifacts
  /\ UNCHANGED << resolverVars, disk, mtime, cacheDirExists, manifestFile, manifestWrites, compressionConfig,
                  counterVars, manifest, phase, runNo, taskVars, adapter,
                  atStart, dirty >>

\* -------------------------------------------------------------- processFile
\* which branch of processFile the regular expressions select
Branch(p) ==
  LET e == ToLowerCase(Ext(p))
  IN  CASE e \in {"jpeg", "jpg", "png", "webp", "tiff", "tif", "avif", "heif"} -> "image"
        [] e \in {"html", "htm"} -> "html"
        [] e \in {"js", "mjs"} -> "js"
        [] e = "svg" -> "svg"
        [] e \in {"css", "scss", "sass", "less"} -> "css"
        [] OTHER -> "other"

\* the settings the branch hands to its adapter
AdapterConfig(cfg, branch) ==
  CASE branch = "image" -> cfg.png
    [] branch = "css" -> cfg.css
    [] OTHER -> << >>

\* what an adapter can answer: an output, or a failure (no output, an
\* unknown media format, an exception: the then-callbacks treat them alike)
AdapterAnswers ==
  [ kind : {"ok"}, out : Contents ] \cup { [ kind |-> "fail" ] }

\* contentLength in handleCompressedResult: Buffer.length of a Buffer,
\* String.length of a string
contentLength(branch, c) == IF branch = "image" THEN ByteLen(c) ELSE CharLen(c)

\* handleCompressedResult: is the result written over the original
accepts(branch, c, originalSize) == contentLength(branch, c) < originalSize

\* hook 'astro:build:done' up to the loop
BuildStartIn(runs) ==
  /\ phase = "configured"
  /\ runNo < runs
  /\ runNo' = runNo + 1
  /\ phase' = "running"
  /\ candidates' \in Perms(files)
  /\ cur' = {}
  /\ pc' = NoTasks(files)
  /\ originalContent' = [ p \in files |-> 0 ]
  /\ entry' = NoLocals(files)
  /\ statOk' = [ p \in files |-> FALSE ]
  /\ result' = NoLocals(files)
  /\ outcome' = [ p \in files |-> "none" ]
  /\ atStart' = [ disk |-> disk, artifacts |-> artifacts,
                  pending |-> pendingUnlinks, clean |-> ~dirty,
                  manifestFile |-> manifestFile,
                  counted |-> processedFiles + skippedFiles + cacheHits ]
  /\ manifestWrites' = 0
  /\ mtime' = [ p \in files |-> "old" ]
  /\ UNCHANGED << resolverVars, disk, cacheDirExists, artifacts, manifestFile, pendingUnlinks, compressionConfig, counterVars, manifest, adapter, dirty >>

BuildStart == BuildStartIn(MaxRuns)

\* one iteration of the loop up to `await cacheManager.getCachedFile(..)`, or,
\* when that returns without a stat, up to the call of processFile
LoopStep ==
  /\ phase = "running"
  /\ candidates # << >>
  /\ cur = {}
  /\ LET p == Head(candidates)
         usedConfig == getUsedConfig(compressionConfig, p)
     IN  /\ candidates' = Tail(candidates)
         /\ IF cacheEnabled(compressionConfig)
            THEN LET how == getCachedFileSync(manifest.entries, p, Hash(disk[p]), usedConfig)
                 IN  /\ originalContent' = [originalContent EXCEPT ![p] = disk[p]]
                     /\ entry' = [entry EXCEPT ![p] =
                                    IF how = "absent" THEN Null ELSE manifest.entries[p]]
                     /\ manifest' = IF how = "invalidate"
                                    THEN [manifest EXCEPT !.entries = invalidateCache(@, p)]
                                    ELSE manifest
                     /\ pendingUnlinks' = IF how = "invalidate"
                                          THEN pendingUnlinks \cup {manifest.entries[p].compressedPath}
                                          ELSE pendingUnlinks
                     /\ pc' = [pc EXCEPT ![p] = IF how = "stat" THEN "stat" ELSE "compress"]
                     /\ cur' = IF how = "stat" THEN {p} ELSE {}
            ELSE /\ pc' = [pc EXCEPT ![p] = "compress"]
                 /\ UNCHANGED << originalContent, entry, manifest, pendingUnlinks, cur >>
  /\ UNCHANGED << resolverVars, disk, mtime, cacheDirExists, artifacts, manifestFile, manifestWrites,
                  compressionConfig, counterVars, phase, runNo, statOk,
                  result, outcome, adapter, atStart, dirty >>

\* the thread pool carries out the stat of getCachedFile
StatExec ==
  /\ \E p \in cur :
       /\ pc[p] = "stat"
       /\ statOk' = [statOk EXCEPT ![p] = entry[p].compressedPath \in DOMAIN artifacts]
       /\ pc' = [pc EXCEPT ![p] = "statted"]
  /\ UNCHANGED << resolverVars, fsVars, compressionConfig, counterVars, manifest, phase, runNo,
                  candidates, cur, originalContent, entry, result, outcome,
                  adapter, atStart, dirty >>

\* getCachedFile returns the entry: the cache-hit branch of the loop
CacheHit ==
  /\ \E p \in cur :
       /\ pc[p] = "statted"
       /\ statOk[p]
       /\ pc' = [pc EXCEPT ![p] = "done"]
       /\ IF entry[p].compressedPath \in DOMAIN artifacts
          THEN /\ disk' = [disk EXCEPT ![p] = artifacts[entry[p].compressedPath]]
               /\ mtime' = [mtime EXCEPT ![p] = "new"]
               /\ originalSizeTotal' = originalSizeTotal + entry[p].size.original
               /\ newSizeTotal' = newSizeTotal + entry[p].size.compressed
               /\ cacheHits' = cacheHits + 1
               /\ outcome' = [outcome EXCEPT ![p] = "hit"]
               /\ UNCHANGED << phase, candidates, dirty >>
          ELSE \* readFileSync(cachedFile.compressedPath) throws: the hook rejects
               /\ phase' = "crashed"
               /\ candidates' = << >>
               /\ dirty' = TRUE
               /\ outcome' = [outcome EXCEPT ![p] = "threw"]
               /\ UNCHANGED << disk, mtime, originalSizeTotal, newSizeTotal, cacheHits >>
  /\ cur' = {}
  /\ UNCHANGED << resolverVars, cacheDirExists, artifacts, manifestFile, manifestWrites, pendingUnlinks,
                  compressionConfig, processedFiles, skippedFiles, manifest, runNo,
                  originalContent, entry, statOk, result, adapter, atStart >>

dropMissing_KeepsEntry(entries, p) == entries

\* the catch of getCachedFile: delete this.manifest.entries[originalPath]
dropMissing(entries, p) == Without(entries, p)

\* getCachedFile finds the artifact missing: it drops the entry and returns null
CacheStale ==
  /\ \E p \in cur :
       /\ pc[p] = "statted"
       /\ ~statOk[p]
       /\ manifest' = [manifest EXCEPT !.entries = dropMissing(@, p)]
       /\ pc' = [pc EXCEPT ![p] = "compress"]
  /\ cur' = {}
  /\ UNCHANGED << resolverVars, fsVars, compressionConfig, counterVars, phase, runNo, candidates, originalContent, entry, statOk, result, outcome,
                  adapter, atStart, dirty >>

\* KnowFailReason
BiggerSize == "compressed size is greater than original size"
Skipped    == "Skipped"
Failed     == "failed"   \* NoOutput, UnknowMediaFormat, `${processType} failed`, String(error)

\* the answer of no adapter: the extension selects no branch
NoAdapter == [ kind |-> "none" ]

processFile_WritesOnFailure(branch, content, a) ==
  LET originalSize == ByteLen(content)
      ok == a.kind = "ok" /\ accepts(branch, a.out, originalSize)
  IN  [ result |-> [ processed |-> ok,
                     reason |-> IF ok THEN "" ELSE IF branch = "other" THEN Skipped
                                ELSE IF a.kind = "ok" THEN BiggerSize ELSE Failed,
                     originalSize |-> originalSize,
                     newSize |-> IF ok THEN ByteLen(a.out) ELSE 0 ],
        file |-> IF ok THEN a.out ELSE IF a.kind = "fail" THEN 1 ELSE content ]

\* processFile on a file of the given content whose adapter answers a: the
\* result it returns and the content of the file afterwards
processFile(branch, content, a) ==
  LET originalSize == ByteLen(content)
  IN  IF branch = "other"
      THEN [ result |-> [ processed |-> FALSE, reason |-> Skipped,
                          originalSize |-> originalSize, newSize |-> 0 ],
             file |-> content ]
      ELSE IF a.kind = "ok" /\ accepts(branch, a.out, originalSize)
      THEN [ result |-> [ processed |-> TRUE, reason |-> "",
                          originalSize |-> originalSize, newSize |-> ByteLen(a.out) ],
             file |-> a.out ]
      ELSE [ result |-> [ processed |-> FALSE,
                          reason |-> IF a.kind = "ok" THEN BiggerSize ELSE Failed,
                          originalSize |-> originalSize, newSize |-> 0 ],
             file |-> content ]

\* processFile as a step: the call of the adapter and handleCompressedResult.
\* The adapter is a function of the bytes and the settings it is given: an
\* answer it gave once is the answer it gives again, also when the keys of the
\* settings object are written in another order.
Compress ==
  /\ phase \in {"running", "crashed"}
  /\ \E p \in files :
       /\ pc[p] = "compress"
       /\ pc' = [pc EXCEPT ![p] = "settle"]
       /\ LET branch == Branch(p)
              key == << branch, disk[p], AdapterConfig(compressionConfig, branch) >>
          IN  \E a \in IF branch = "other" THEN {NoAdapter} ELSE AdapterAnswers :
                /\ branch # "other" =>
                     \A k \in DOMAIN adapter :
                       (k[1] = key[1] /\ k[2] = key[2] /\ ObjEq(k[3], key[3])) => a = adapter[k]
                /\ adapter' = IF branch = "other" THEN adapter ELSE With(adapter, key, a)
                /\ LET r == processFile(branch, disk[p], a)
                   IN  /\ result' = [result EXCEPT ![p] = r.result]
                       /\ disk' = [disk EXCEPT ![p] = r.file]
                       /\ IF r.result.processed
                          THEN /\ mtime' = [mtime EXCEPT ![p] = "new"]
                               /\ originalSizeTotal' = originalSizeTotal + r.result.originalSize
                               /\ newSizeTotal' = newSizeTotal + r.result.newSize
                          ELSE UNCHANGED << mtime, originalSizeTotal, newSizeTotal >>
  /\ UNCHANGED << resolverVars, cacheDirExists, artifacts, manifestFile, manifestWrites, pendingUnlinks,
                  compressionConfig, processedFiles, skippedFiles, cacheHits,
                  manifest, phase, runNo, candidates, cur, originalContent,
                  entry, statOk, outcome, atStart, dirty >>

\* does the then-callback of the run store the candidate in the cache
stores(cfg, res) == cacheEnabled(cfg) /\ (res.processed \/ res.reason = BiggerSize)

\* does the then-callback count the candidate as processed
countsProcessed(cfg, res) ==
  res.processed \/ (cacheEnabled(cfg) /\ res.reason = BiggerSize)

\* the then-callback on processFile's promise: saveToCache and the counters
Settle ==
  /\ phase \in {"running", "crashed"}
  /\ \E p \in files :
       /\ pc[p] = "settle"
       /\ pc' = [pc EXCEPT ![p] = "done"]
       /\ LET res == result[p]
              hash == Hash(originalContent[p])
              usedConfig == getUsedConfig(compressionConfig, p)
          IN  /\ IF stores(compressionConfig, res)
                 THEN /\ artifacts' = With(artifacts, cachedFilePath(p, hash), disk[p])
                      /\ manifest' = [manifest EXCEPT !.entries =
                           With(@, p, CacheEntry(p, hash, ByteLen(originalContent[p]),
                                                 disk[p], usedConfig))]
                 ELSE UNCHANGED << artifacts, manifest >>
              /\ IF countsProcessed(compressionConfig, res)
                 THEN /\ processedFiles' = processedFiles + 1
                      /\ UNCHANGED skippedFiles
                 ELSE /\ skippedFiles' = skippedFiles + 1
                      /\ UNCHANGED processedFiles
              /\ outcome' = [outcome EXCEPT ![p] =
                   IF res.processed THEN "processed"
                   ELSE IF res.reason = BiggerSize THEN "bigger" ELSE "skipped"]
  /\ UNCHANGED << resolverVars, disk, mtime, cacheDirExists, manifestFile, manifestWrites, pendingUnlinks,
                  compressionConfig, originalSizeTotal, newSizeTotal, cacheHits,
                  phase, runNo, candidates, cur, originalContent, entry,
                  statOk, result, adapter, atStart, dirty >>

allSettled_NoAwait == candidates = << >> /\ cur = {}

\* the loop is through and `await Promise.all(promises)` has returned: every
\* promise pushed by the loop is fulfilled (saveToCache runs synchronously
\* inside the then-callback, before that promise is)
allSettled ==
  /\ candidates = << >>
  /\ cur = {}
  /\ \A p \in files : pc[p] = "done"

\* `await Promise.all(promises)` is over: saveManifest and the summary
BuildFinish ==
  /\ phase = "running"
  /\ allSettled
  /\ IF cacheEnabled(compressionConfig)
     THEN /\ manifestFile' = saveManifest(manifest)
          /\ manifestWrites' = manifestWrites + 1
     ELSE UNCHANGED << manifestFile, manifestWrites >>
  /\ phase' = "done"
  /\ dirty' = FALSE
  /\ UNCHANGED << resolverVars, disk, mtime, cacheDirExists, artifacts, pendingUnlinks,
                  compressionConfig, counterVars, manifest, runNo, taskVars,
                  adapter, atStart >>

Next ==
  \/ ConfigDone
  \/ BuildStart
  \/ LoopStep
  \/ StatExec
  \/ CacheHit
  \/ CacheStale
  \/ Compress
  \/ Settle
  \/ BuildFinish
  \/ UnlinkExec
  \/ Rebuild
  \/ Recreate

Spec == Init /\ [][Next]_vars

TypeOK ==
  /\ phase \in {"created", "configured", "running", "done", "rebuilt", "crashed", "killed"}
  /\ \A p \in files : pc[p] \in {"idle", "stat", "statted", "compress", "settle", "done"}

\* ------------------------------------- one stylesheet over a series of builds
\* A project with one stylesheet, built MaxRuns + 1 times with the cache on.
SeriesChoices == [ cache : {CacheOn}, css : CssChoices ]

SeriesDirectories == { { <<"a", "css">> } }

SeriesRuns == MaxRuns + 1

InitSeries == InitOf(SeriesDirectories, SeriesChoices)

\* The build process is stopped while the hook runs (the user interrupts the
\* build, the machine goes down): nothing of the run executes any more, line
\* 263 (saveManifest) included, and the memory of the process is gone; what
\* the run wrote stays on the disk.
Kill ==
  /\ phase = "running"
  /\ phase' = "killed"
  /\ manifest' = Null
  /\ originalSizeTotal' = 0
  /\ newSizeTotal' = 0
  /\ processedFiles' = 0
  /\ skippedFiles' = 0
  /\ cacheHits' = 0
  /\ candidates' = << >>
  /\ cur' = {}
  /\ pc' = NoTasks(files)
  /\ originalContent' = [ p \in files |-> 0 ]
  /\ entry' = NoLocals(files)
  /\ statOk' = [ p \in files |-> FALSE ]
  /\ result' = NoLocals(files)
  /\ outcome' = [ p \in files |-> "none" ]
  /\ pendingUnlinks' = {}
  /\ dirty' = TRUE
  /\ UNCHANGED << resolverVars, disk, mtime, cacheDirExists, artifacts, manifestFile,
                  manifestWrites, compressionConfig, runNo, adapter, atStart >>

NextSeries ==
  \/ ConfigDoneIn(SeriesRuns)
  \/ BuildStartIn(SeriesRuns)
  \/ LoopStep
  \/ StatExec
  \/ CacheHit
  \/ CacheStale
  \/ Compress
  \/ Settle
  \/ BuildFinish
  \/ UnlinkExec
  \/ RebuildIn(SeriesRuns)
  \/ RecreateOf(SeriesChoices, SeriesRuns)
  \/ Kill

SpecSeries == InitSeries /\ [][NextSeries]_vars

\* ------------------------------------------- the same options, written anew
\* A project with one stylesheet whose two csso options are written in one
\* order or the other from build to build.
CssTwoKeys        == << <<"restructure", "false">>, <<"comments", "false">> >>
CssTwoKeysSwapped == << <<"comments", "false">>, <<"restructure", "false">> >>

KeyOrderChoices == [ cache : {CacheOn}, css : {CssTwoKeys, CssTwoKeysSwapped} ]

InitKeyOrder == InitOf(SeriesDirectories, KeyOrderChoices)

NextKeyOrder ==
  \/ ConfigDoneIn(SeriesRuns)
  \/ BuildStartIn(SeriesRuns)
  \/ LoopStep
  \/ StatExec
  \/ CacheHit
  \/ CacheStale
  \/ Compress
  \/ Settle
  \/ BuildFinish
  \/ UnlinkExec
  \/ RebuildIn(SeriesRuns)
  \/ RecreateOf(KeyOrderChoices, SeriesRuns)

SpecKeyOrder == InitKeyOrder /\ [][NextKeyOrder]_vars

\* ----------------------------------------- a file the build no longer emits
\* A project with two stylesheets and the cache on; a later build leaves one
\* of them out of the output directory.
ShrinkDirectories == { { <<"a", "css">>, <<"b", "css">> } }

InitShrink == InitOf(ShrinkDirectories, SeriesChoices)

\* The project is built again without one of its files: traverseDirectory
\* does not return it any more.
Remove ==
  /\ phase = "done"
  /\ runNo < MaxRuns
  /\ \E q \in files :
       /\ files # {q}
       /\ disk' = [ p \in files \ {q} |-> disk[p] ]
  /\ phase' = "rebuilt"
  /\ dirty' = TRUE
  /\ UNCHANGED << resolverVars, mtime, cacheDirExists, artifacts, manifestFile, manifestWrites, pendingUnlinks,
                  compressionConfig, counterVars, manifest, runNo, taskVars,
                  adapter, atStart >>

NextShrink ==
  \/ ConfigDone
  \/ BuildStart
  \/ LoopStep
  \/ StatExec
  \/ CacheHit
  \/ CacheStale
  \/ Compress
  \/ Settle
  \/ BuildFinish
  \/ UnlinkExec
  \/ Rebuild
  \/ RecreateOf(SeriesChoices, MaxRuns)
  \/ Remove

SpecShrink == InitShrink /\ [][NextShrink]_vars

\* ------------------------------------- a manifest.json of foreign content
\* What JSON.parse returns on a manifest.json this code did not write: null,
\* an object without entries, one without version, an object of other keys.
ForeignFiles ==
  { Null, [ version |-> "1" ], [ entries |-> << >> ], [ name |-> "cache" ] }

\* `this.manifest.entries[originalPath]` can be evaluated
hasEntries(m) == m # Null /\ "entries" \in DOMAIN m

\* something else than this code has written manifest.json before the hooks run
Overwrite ==
  /\ phase = "created"
  /\ manifestFile \notin ForeignFiles
  /\ manifestFile' \in ForeignFiles
  /\ cacheDirExists' = cacheDirExists \cup {cacheDirOf(compressionConfig)}
  /\ UNCHANGED << resolverVars, disk, mtime, artifacts, manifestWrites, pendingUnlinks,
                  compressionConfig, counterVars, manifest, phase, runNo, taskVars,
                  adapter, atStart, dirty >>

\* getCachedFile on a manifest without entries: the first line that reads
\* this.manifest.entries throws a TypeError and the hook rejects
LookupThrows ==
  /\ phase = "running"
  /\ candidates # << >>
  /\ cur = {}
  /\ cacheEnabled(compressionConfig)
  /\ ~hasEntries(manifest)
  /\ outcome' = [outcome EXCEPT ![Head(candidates)] = "threw"]
  /\ candidates' = << >>
  /\ phase' = "crashed"
  /\ dirty' = TRUE
  /\ UNCHANGED << resolverVars, fsVars, compressionConfig, counterVars, manifest, runNo,
                  cur, pc, originalContent, entry, statOk, result, adapter, atStart >>

\* the loop where the manifest lets it run
LoopStepOnEntries ==
  /\ cacheEnabled(compressionConfig) => hasEntries(manifest)
  /\ LoopStep

NextForeign == Overwrite \/ ConfigDone \/ BuildStart \/ LookupThrows \/ LoopStepOnEntries

SpecForeign == Init /\ [][NextForeign]_vars

\* -------------------------------------------- getUsedConfig on its own
\* The paths getUsedConfig is called with: absolute paths as the directory
\* walk returns them, cut at their dots.
ResolverPaths ==
  { << "/dist/a", e >> :
      e \in { "css", "CSS", "png", "PNG", "jpg", "JPG", "jpeg", "Jpeg", "js",
              "mjs", "MJS", "cjs", "Cjs", "tif", "TIF", "tiff", "gif", "svg",
              "html", "htm", "scss", "txt", "cache", "Cache" } }
    \cup { << "/dist/png" >>, << "/dist/v1", "css/readme" >>,
           << "/dist/a", "min", "js" >>, << "/dist/a", "jpg", "txt" >> }

InitResolver ==
  /\ filePath \in ResolverPaths
  /\ resolved = Unset
  /\ tree = {}
  /\ subTree = Unset
  /\ \E options \in OptionChoices : compressionConfig = MergeConfig(options)
  /\ disk = << >>
  /\ mtime = << >>
  /\ cacheDirExists = {}
  /\ artifacts = << >>
  /\ manifestFile = MissingFile
  /\ pendingUnlinks = {}
  /\ manifestWrites = 0
  /\ originalSizeTotal = 0
  /\ newSizeTotal = 0
  /\ processedFiles = 0
  /\ skippedFiles = 0
  /\ cacheHits = 0
  /\ manifest = Null
  /\ phase = "created"
  /\ runNo = 0
  /\ candidates = << >>
  /\ cur = {}
  /\ pc = << >>
  /\ originalContent = << >>
  /\ entry = << >>
  /\ statOk = << >>
  /\ result = << >>
  /\ outcome = << >>
  /\ adapter = << >>
  /\ dirty = TRUE
  /\ atStart = [ disk |-> << >>, artifacts |-> << >>, pending |-> {}, clean |-> FALSE,
                 manifestFile |-> MissingFile, counted |-> 0 ]

\* getUsedConfig(filePath)
Resolve ==
  /\ resolved = Unset
  /\ resolved' = getUsedConfig(compressionConfig, filePath)
  /\ UNCHANGED << filePath, tree, subTree, fsVars, compressionConfig, counterVars, manifest, phase,
                  runNo, taskVars, adapter, atStart, dirty >>

NextResolver == Resolve

SpecResolver == InitResolver /\ [][NextResolver]_vars

\* ---------------------------------------- traverseDirectory on its own
MaxEntries == 3      \* files and directories under the root
MaxNesting == 2      \* directories inside one another

\* A file name is the sequence of its characters.  Directories the build may
\* write: "a", "b", "a b", "a#" and "#a"; files: "x", "y" and "x#".
DirNames  == { <<"a">>, <<"b">>, <<"a", " ", "b">>, <<"a", "#">>, <<"#", "a">> }
FileNames == { <<"x">>, <<"y">>, <<"x", "#">> }

\* A directory tree is the set of its entries below the root; the path of an
\* entry is the sequence of the names that lead to it.
isDirectory(t, path) ==
  path = << >> \/ [ path |-> path, dir |-> TRUE ] \in t

Parent(path) == SubSeq(path, 1, Len(path) - 1)

\* the Dirents of fs.readdirSync(pathname, { withFileTypes: true })
readdirSync(t, pathname) == { e \in t : Parent(e.path) = pathname }

\* path.join(directory.pathname, file.name)
join(pathname, name) == Append(pathname, name)

RECURSIVE cutAtHash(_)
\* the URL parser: the path of a URL ends where its fragment starts
cutAtHash(name) ==
  IF name = << >> \/ Head(name) = "#" THEN << >>
  ELSE << Head(name) >> \o cutAtHash(Tail(name))

RECURSIVE percentEncode(_)
\* the URL parser: a space in the path is written %20
percentEncode(name) ==
  IF name = << >> THEN << >>
  ELSE (IF Head(name) = " " THEN << "%", "2", "0" >> ELSE << Head(name) >>)
         \o percentEncode(Tail(name))

\* new URL(path.join(directory.href, file.name)).pathname: the href of the
\* directory is its pathname behind "file://", the name is appended as it
\* is, and the URL parser reads the whole anew.  A name that starts with the
\* fragment sign adds nothing to the path.
pathnameOfChild(pathname, name) ==
  LET segment == percentEncode(cutAtHash(name))
  IN  IF segment = << >> THEN pathname ELSE join(pathname, segment)

\* what a call can end with instead of a list
ENOENT     == [ threw |-> "ENOENT: no such file or directory, scandir" ]
RangeError == [ threw |-> "RangeError: Maximum call stack size exceeded" ]

\* a list up to its order: how often it holds each path
Listing(counts) == [ list |-> counts ]

CountIn(l, path) == IF path \in DOMAIN l.list THEN l.list[path] ELSE 0

\* subTree.push(...more)
Concat(l, more) ==
  Listing([ path \in DOMAIN l.list \cup DOMAIN more.list |->
              CountIn(l, path) + CountIn(more, path) ])

RECURSIVE ConcatAll(_, _)
ConcatAll(lists, among) ==
  IF among = {} THEN Listing(<< >>)
  ELSE LET f == CHOOSE f \in among : TRUE
       IN  Concat(lists[f], ConcatAll(lists, among \ {f}))

RECURSIVE traverseDirectory(_, _, _)
\* traverseDirectory(directory), directory.pathname given; room is the room
\* left on the call stack.  The calls nest without a suspension in between:
\* each one reaches its recursive call before its first await.
traverseDirectory(t, pathname, room) ==
  IF room = 0 THEN RangeError
  ELSE IF ~isDirectory(t, pathname) THEN ENOENT
  ELSE LET dirents == readdirSync(t, pathname)
           dirs  == { f \in dirents : f.dir }
           below == [ f \in dirs |->
                        traverseDirectory(t, pathnameOfChild(pathname, f.path[Len(f.path)]),
                                          room - 1) ]
           own   == Listing([ filePathOf \in { join(pathname, f.path[Len(f.path)]) : f \in dirents \ dirs }
                                |-> 1 ])
       IN  IF \E f \in dirs : below[f] = RangeError THEN RangeError
           ELSE IF \E f \in dirs : below[f] = ENOENT THEN ENOENT
           ELSE Concat(own, ConcatAll(below, dirs))

\* more nested calls than any tree of the model has directories
StackRoom == MaxEntries + 2

InitWalker ==
  /\ tree = {}
  /\ subTree = Unset
  /\ filePath = NoPath
  /\ resolved = Unset
  /\ compressionConfig = MergeConfig(CHOOSE options \in OptionChoices : TRUE)
  /\ disk = << >>
  /\ mtime = << >>
  /\ cacheDirExists = {}
  /\ artifacts = << >>
  /\ manifestFile = MissingFile
  /\ pendingUnlinks = {}
  /\ manifestWrites = 0
  /\ originalSizeTotal = 0
  /\ newSizeTotal = 0
  /\ processedFiles = 0
  /\ skippedFiles = 0
  /\ cacheHits = 0
  /\ manifest = Null
  /\ phase = "created"
  /\ runNo = 0
  /\ candidates = << >>
  /\ cur = {}
  /\ pc = << >>
  /\ originalContent = << >>
  /\ entry = << >>
  /\ statOk = << >>
  /\ result = << >>
  /\ outcome = << >>
  /\ adapter = << >>
  /\ dirty = TRUE
  /\ atStart = [ disk |-> << >>, artifacts |-> << >>, pending |-> {}, clean |-> FALSE,
                 manifestFile |-> MissingFile, counted |-> 0 ]

walkerFrame ==
  UNCHANGED << filePath, resolved, fsVars, compressionConfig, counterVars, manifest, phase,
               runNo, taskVars, adapter, atStart, dirty >>

\* the build writes a directory into the output directory
MkDir ==
  /\ subTree = Unset
  /\ Cardinality(tree) < MaxEntries
  /\ \E e \in tree \cup { [ path |-> << >>, dir |-> TRUE ] }, name \in DirNames :
       /\ e.dir
       /\ Len(e.path) < MaxNesting
       /\ \A o \in tree : o.path # join(e.path, name)
       /\ tree' = tree \cup { [ path |-> join(e.path, name), dir |-> TRUE ] }
  /\ UNCHANGED subTree
  /\ walkerFrame

\* the build writes a file into the output directory
WriteFile ==
  /\ subTree = Unset
  /\ Cardinality(tree) < MaxEntries
  /\ \E e \in tree \cup { [ path |-> << >>, dir |-> TRUE ] }, name \in FileNames :
       /\ e.dir
       /\ \A o \in tree : o.path # join(e.path, name)
       /\ tree' = tree \cup { [ path |-> join(e.path, name), dir |-> FALSE ] }
  /\ UNCHANGED subTree
  /\ walkerFrame

\* traverseDirectory(dir) on the output directory
Walk ==
  /\ subTree = Unset
  /\ subTree' = traverseDirectory(tree, << >>, StackRoom)
  /\ UNCHANGED tree
  /\ walkerFrame

NextWalker == MkDir \/ WriteFile \/ Walk

SpecWalker == InitWalker /\ [][NextWalker]_vars

\* ================================================================= claims
usedConfigOf(p) == getUsedConfig(compressionConfig, p)

\* getCachedFile has returned for p in the current run
lookedUp(p) == entry[p] # Null \/ pc[p] \in {"compress", "settle", "done"}

\* getCachedFile returned the entry for p (the hit branch ran, or threw)
returnedEntry(p) == outcome[p] \in {"hit", "threw"}

\* what getCachedFile(p, hash, settings) answers on a manifest and a cache directory
WouldHit(entries, arts, p, hash, settings) ==
  /\ getCachedFileSync(entries, p, hash, settings) = "stat"
  /\ entries[p].compressedPath \in DOMAIN arts

cacheOff == ObjGet(compressionConfig.cache, "enabled") = "false"

\* the answer the adapter gave for p's bytes in this run
adapterKey(p) == << Branch(p), atStart.disk[p], AdapterConfig(compressionConfig, Branch(p)) >>

compressedOk(p) ==
  /\ result[p] # Null
  /\ adapterKey(p) \in DOMAIN adapter
  /\ adapter[adapterKey(p)].kind = "ok"

\* C1: getCachedFile returns an entry only for a path the manifest holds an
\* entry for, with the hash and the settings of the call, and whose artifact
\* the stat found on disk; otherwise it returns null.
C1_HitOnlyIfValid ==
  \A p \in files :
    returnedEntry(p) =>
      /\ entry[p] # Null
      /\ p \in DOMAIN manifest.entries
      /\ manifest.entries[p] = entry[p]
      /\ entry[p].sourceHash = Hash(originalContent[p])
      /\ UsedEq(entry[p].settings, usedConfigOf(p))
      /\ statOk[p]

C1_Witness ==
  \E p \in files : outcome[p] = "hit" /\ runNo = 2 /\ disk[p] # atStart.disk[p]

\* C2: when a run finds the content of F changed against the entry stored for
\* it (same settings), then after the run the manifest entry of F carries the
\* new hash and another artifact, and once the deletions are through the
\* artifact of the old entry is gone.
C2_ContentChange ==
  \A p \in files :
    ( /\ phase = "done"
      /\ entry[p] # Null
      /\ entry[p].sourceHash # Hash(originalContent[p])
      /\ UsedEq(entry[p].settings, usedConfigOf(p)) )
    => /\ p \in DOMAIN manifestFile.entries
       /\ manifestFile.entries[p].sourceHash = Hash(originalContent[p])
       /\ manifestFile.entries[p].compressedPath # entry[p].compressedPath
       /\ pendingUnlinks = {} => entry[p].compressedPath \notin DOMAIN artifacts

\* C3: after a run with other settings over the same content, once the run
\* and its deletions are through, getCachedFile(F, hash(F), new settings) on
\* the persisted manifest returns the new entry (stated for the runs that
\* stored one).
C3_SettingsChange ==
  \A p \in files :
    ( /\ phase = "done"
      /\ pendingUnlinks = {}
      /\ entry[p] # Null
      /\ entry[p].sourceHash = Hash(originalContent[p])
      /\ ~UsedEq(entry[p].settings, usedConfigOf(p))
      /\ outcome[p] \in {"processed", "bigger"} )
    => WouldHit(manifestFile.entries, artifacts, p, Hash(originalContent[p]), usedConfigOf(p))

\* C4: a lookup whose settings differ from the entry's never returns the
\* entry: it returns null and the entry is gone from the in-memory manifest.
C4_SettingsMismatch ==
  \A p \in files :
    ( /\ entry[p] # Null
      /\ entry[p].sourceHash = Hash(originalContent[p])
      /\ ~UsedEq(entry[p].settings, usedConfigOf(p)) )
    => /\ ~returnedEntry(p)
       /\ pc[p] \notin {"stat", "statted"}
       /\ pc[p] \in {"compress", "settle"} => p \notin DOMAIN manifest.entries

C4_Witness ==
  \E p \in files :
    /\ pc[p] = "compress"
    /\ entry[p] # Null
    /\ entry[p].sourceHash = Hash(originalContent[p])
    /\ ~UsedEq(entry[p].settings, usedConfigOf(p))

\* C5: a candidate whose hash and settings equal those of its manifest entry
\* when the run starts, and whose artifact exists then (no deletion pending),
\* is counted as a cache hit: the adapter is not invoked for it and it is not
\* counted as processed.
C5_ValidEntryIsHit ==
  \A p \in files :
    ( /\ phase \in {"running", "done"}
      /\ entry[p] # Null
      /\ atStart.pending = {}
      /\ entry[p].sourceHash = Hash(atStart.disk[p])
      /\ UsedEq(entry[p].settings, usedConfigOf(p))
      /\ entry[p].compressedPath \in DOMAIN atStart.artifacts )
    => /\ pc[p] \in {"stat", "statted", "done"}
       /\ outcome[p] \in {"none", "hit"}

\* C6: a run over the directory as the previous run left it, with the
\* settings unchanged, leaves every candidate with the bytes it had and
\* neither writes nor deletes an artifact.
C6_Idempotence ==
  ( phase = "done" /\ atStart.clean )
  => /\ disk = atStart.disk
     /\ artifacts = atStart.artifacts
     /\ pendingUnlinks \subseteq atStart.pending

\* C7: a run with caching enabled over the directory as the previous run left
\* it, settings unchanged, writes no candidate (stated for the candidates the
\* run serves from the cache).
C7_NoWriteOnRerun ==
  \A p \in files :
    ( atStart.clean /\ outcome[p] = "hit" ) => mtime[p] = "old"

\* C8: a candidate whose compressed result is not shorter in bytes than the
\* original is, after the run, byte for byte what it was before the run.
C8_NoRegression ==
  \A p \in files :
    ( /\ pc[p] \in {"settle", "done"}
      /\ compressedOk(p)
      /\ ByteLen(adapter[adapterKey(p)].out) >= ByteLen(atStart.disk[p]) )
    => disk[p] = atStart.disk[p]

\* C9: the compressed result is accepted (written, reported as processed) if
\* and only if its length in bytes is less than the original's.
C9_AcceptIffSmaller ==
  \A p \in files :
    ( pc[p] \in {"settle", "done"} /\ compressedOk(p) )
    => ( result[p].processed
           <=> ByteLen(adapter[adapterKey(p)].out) < ByteLen(atStart.disk[p]) )

\* C10: while the cache is disabled no step creates the cache directory,
\* writes an artifact, or loads or persists the manifest.
C10_CacheDisabled ==
  [][ ( cacheOff /\ cacheOff' )
      => /\ cacheDirExists' = cacheDirExists
         /\ manifestFile' = manifestFile
         /\ manifest' = manifest
         /\ manifest' = Null
         /\ \A a \in DOMAIN artifacts' :
              a \in DOMAIN artifacts /\ artifacts'[a] = artifacts[a]
         /\ pendingUnlinks' \subseteq pendingUnlinks ]_vars

C10_Witness ==
  /\ cacheOff
  /\ phase = "done"
  /\ runNo = 2
  /\ cacheDirExists = {}
  /\ manifestFile = MissingFile
  /\ processedFiles > 0

\* C11: with caching enabled, once the configure hook has run and through the
\* run and after it, the cache directory exists and holds manifest.json; it
\* is root/cacheDir when the cache option names a cacheDir and the default
\* cache directory under root otherwise.
C11_CacheDirCreated ==
  ( cacheEnabled(compressionConfig) /\ phase # "created" )
  => LET given == ObjGet(compressionConfig.cache, "cacheDir")
     IN  /\ << "root", IF given = "undefined" THEN defaultCacheDir ELSE given >>
               \in cacheDirExists
         /\ manifestFile \notin {MissingFile, CorruptFile}

C11_Witness ==
  /\ phase = "done"
  /\ compressionConfig.cache = CacheCustom
  /\ cacheDirExists = { << "root", "custom-cache" >> }
  /\ manifestFile # EmptyManifest

\* C12: initialize on a manifest.json that is missing or does not parse ends
\* without an error, with the empty manifest in memory and written to the
\* file; on a manifest.json that loads, the manifest in memory is the file's
\* content and the file is not written.
C12_InitializeFallback ==
  [][ ( phase # "configured" /\ phase' = "configured" /\ cacheEnabled(compressionConfig) )
      => IF manifestFile \in {MissingFile, CorruptFile}
         THEN /\ manifest' = EmptyManifest
              /\ manifestFile' = EmptyManifest
              /\ manifestWrites' = manifestWrites + 1
         ELSE /\ manifest' = manifestFile
              /\ manifestFile' = manifestFile
              /\ manifestWrites' = manifestWrites ]_vars

C12_Witness ==
  /\ phase = "configured"
  /\ runNo = 0
  /\ cacheDirExists # {}
  /\ manifest = EmptyManifest
  /\ manifestFile = EmptyManifest
  /\ manifestWrites = 1

\* the adapter rejected p's bytes in this run (it threw or reported a failure)
rejectedByAdapter(p) == result[p] # Null /\ result[p].reason = Failed

\* C13: a candidate whose bytes its adapter rejects is left byte for byte as
\* it was, no error is raised for it (the step that handles it does not abort
\* the run, and counts it as skipped), and in the completed run every other
\* candidate has been handled.
C13_CorruptInputTolerated ==
  /\ [](\A p \in files :
          ( phase \in {"running", "crashed", "done"} /\ rejectedByAdapter(p) )
          => /\ disk[p] = atStart.disk[p]
             /\ pc[p] = "done" => outcome[p] = "skipped"
             /\ phase = "done" => \A q \in files : outcome[q] # "none")
  /\ [][ \A p \in files :
           ( pc[p] \in {"compress", "settle"} /\ pc'[p] # pc[p] /\ rejectedByAdapter(p)' )
           => phase' = phase ]_vars

C13_Witness ==
  \E p, q \in files :
    /\ p # q
    /\ phase = "done"
    /\ rejectedByAdapter(p)
    /\ outcome[q] = "processed"

\* the compression attempt for p was rejected: processFile ran an adapter
\* branch for it and returned processed: false
rejected(p) ==
  /\ result[p] # Null
  /\ ~result[p].processed
  /\ result[p].reason \in {BiggerSize, Failed}

\* C14: the step that settles a candidate whose compression attempt was
\* rejected (result not smaller, failure, exception) counts it as skipped and
\* not as processed, with the cache enabled or disabled.
C14_RejectedIsSkipped ==
  [][ \A p \in files :
        ( pc[p] = "settle" /\ pc'[p] = "done" /\ rejected(p) )
        => /\ skippedFiles' = skippedFiles + 1
           /\ processedFiles' = processedFiles ]_vars

\* C15: with the cache enabled, a candidate of a recognized format whose
\* compression attempt was rejected has, once it is settled, a cache entry
\* under the hash of its bytes (so the next run over the same bytes and
\* settings finds it), whose artifact was written with the original bytes.
C15_RejectedIsCached ==
  \A p \in files :
    ( /\ phase \in {"running", "done"}
      /\ cacheEnabled(compressionConfig)
      /\ usedConfigOf(p) # Null
      /\ pc[p] = "done"
      /\ rejected(p) )
    => /\ p \in DOMAIN manifest.entries
       /\ manifest.entries[p].sourceHash = Hash(atStart.disk[p])
       /\ UsedEq(manifest.entries[p].settings, usedConfigOf(p))
       /\ manifest.entries[p].size.compressed = ByteLen(atStart.disk[p])

\* C16: in a run with the cache enabled manifest.json is written once, by
\* saveManifest, when every per-file task has settled; no step of the run
\* before that writes it, so while the run is under way, and after it has
\* aborted, the file is what it was when the run started.
C16_ManifestWrittenOnce ==
  /\ []( phase \in {"running", "crashed"}
         => manifestFile = atStart.manifestFile /\ manifestWrites = 0 )
  /\ []( ( phase = "done" /\ cacheEnabled(compressionConfig) ) => manifestWrites = 1 )
  /\ [][ ( phase = "running" /\ manifestWrites' # manifestWrites )
         => /\ phase' = "done"
            /\ \A p \in files : pc[p] = "done" /\ outcome[p] # "none"
            /\ manifestFile' = manifest ]_vars

C16_Witness ==
  /\ phase = "done"
  /\ manifestWrites = 1
  /\ manifestFile # atStart.manifestFile
  /\ atStart.manifestFile.entries # << >>

\* C17: when reading the cached artifact of one candidate fails, only that
\* candidate is given up: the run goes on (it is not aborted by the error)
\* and the other candidates are still looked at.
C17_IOErrorIsolated ==
  \A p \in files :
    outcome[p] = "threw"
    => /\ phase \in {"running", "done"}
       /\ \A q \in files \ {p} : pc[q] = "idle" => q \in { candidates[i] : i \in DOMAIN candidates }

\* C18: for a candidate for which getUsedConfig returns null no adapter is
\* invoked, the file stays as it is, it is counted as skipped and no cache
\* entry is made for it.
C18_UnresolvedIsSkipped ==
  \A p \in files :
    ( phase \in {"running", "crashed", "done"} /\ usedConfigOf(p) = Null )
    => /\ result[p] # Null => result[p].reason = Skipped
       /\ disk[p] = atStart.disk[p]
       /\ pc[p] = "done" => outcome[p] = "skipped"
       /\ manifest # Null => p \notin DOMAIN manifest.entries

\* the format identifiers of FormatCompressionOptions
FormatIds == { "png", "jpeg", "jxl", "webp", "avif", "heif", "tiff", "gif",
               "html", "js", "svg", "css" }

\* C19: getUsedConfig returns a format only for an extension that is a format
\* identifier or one of its aliases: the format it returns is a format
\* identifier, and an extension that is neither resolves to null.
C19_ResolvesFormatsOnly ==
  resolved # Unset
  => IF Ext(filePath) \in { "css", "CSS", "png", "PNG", "jpg", "JPG", "jpeg", "Jpeg",
                            "js", "mjs", "MJS", "cjs", "Cjs", "tif", "TIF", "tiff",
                            "gif", "svg", "html" }
     THEN resolved # Null /\ resolved.format \in FormatIds
     ELSE resolved = Null

\* C20: getUsedConfig looks at the lower-cased last piece of the path only and
\* maps the aliases onto their format: jpg to jpeg, mjs and cjs to js, tif to
\* tiff, each with the settings of that format.
C20_AliasesAndCase ==
  resolved # Unset
  => LET e == Ext(filePath)
         is(format) == resolved = [ config |-> compressionConfig[format], format |-> format ]
     IN  /\ e \in {"jpg", "JPG", "jpeg", "Jpeg"} => is("jpeg")
         /\ e \in {"js", "mjs", "MJS", "cjs", "Cjs"} => is("js")
         /\ e \in {"tif", "TIF", "tiff"} => is("tiff")
         /\ e \in {"css", "CSS"} => is("css")
         /\ e \in {"png", "PNG"} => is("png")
         /\ e \in {"css/readme", "/dist/png", "txt"} => resolved = Null

C20_Witness ==
  /\ Ext(filePath) = "Cjs"
  /\ Len(filePath) = 2
  /\ resolved = [ config |-> JsDefault, format |-> "js" ]

\* the bytes saveToCache stored when it made entry e of candidate p: the file
\* processFile left behind for the content and the settings e records
artifactOf(p, e) ==
  LET k == CHOOSE k \in DOMAIN adapter :
             k[1] = Branch(p) /\ k[2] = e.sourceHash[2] /\ ObjEq(k[3], e.settings.config)
  IN  processFile(Branch(p), k[2], adapter[k]).file

\* C22: stale data is never trusted: on a cache hit the bytes copied over the
\* candidate are the bytes the saveToCache call that made the entry stored,
\* whatever runs, setting changes and stopped runs came before.
C22_StaleNeverTrusted ==
  \A p \in files :
    (phase \in {"running", "done"} /\ outcome[p] = "hit")
      => disk[p] = artifactOf(p, entry[p])

\* C21: the settings comparison of getCachedFile is structural: a lookup whose
\* hash matches and whose settings have the keys and values of the entry's
\* settings, in whatever order, invalidates nothing: the entry stays in the
\* manifest and no artifact is handed to unlink.
C21_KeyOrderIndependent ==
  [][ \A p \in files :
        ( /\ phase = "running"
          /\ cur = {}
          /\ candidates # << >>
          /\ Head(candidates) = p
          /\ candidates' = Tail(candidates)
          /\ p \in DOMAIN manifest.entries
          /\ manifest.entries[p].sourceHash = Hash(disk[p])
          /\ UsedEq(manifest.entries[p].settings, usedConfigOf(p)) )
        => /\ p \in DOMAIN manifest'.entries
           /\ pendingUnlinks' = pendingUnlinks ]_vars

\* C23: entries of distinct paths never collide: when a lookup invalidates the
\* entry of one path, the artifact it hands to unlink is not the artifact of
\* another path's entry that is valid (hash and settings match that path's
\* file, the artifact exists), so that path's next lookup is still a hit.
C23_NoCollision ==
  [][ \A q \in files :
        ( /\ phase = "running"
          /\ cacheEnabled(compressionConfig)
          /\ cur = {}
          /\ candidates # << >>
          /\ candidates' = Tail(candidates)
          /\ q # Head(candidates)
          /\ WouldHit(manifest.entries, artifacts, q, Hash(disk[q]), usedConfigOf(q)) )
        => manifest.entries[q].compressedPath \notin pendingUnlinks' \ pendingUnlinks ]_vars

\* the lookup of p in this run found an entry and invalidated it (its hash or
\* its settings did not match)
invalidated(p) ==
  /\ entry[p] # Null
  /\ \/ entry[p].sourceHash # Hash(originalContent[p])
     \/ JSONstringify(entry[p].settings) # JSONstringify(usedConfigOf(p))

\* C24: at most one artifact per path: after a completed run whose unlinks
\* have all been carried out, the artifact of an entry that the run
\* invalidated and replaced is gone, unless it is the file of the new entry.
C24_OneArtifactPerPath ==
  \A p \in files :
    ( /\ phase = "done"
      /\ cacheEnabled(compressionConfig)
      /\ pendingUnlinks = {}
      /\ invalidated(p)
      /\ p \in DOMAIN manifest.entries )
    => \/ entry[p].compressedPath \notin DOMAIN artifacts
       \/ entry[p].compressedPath = manifest.entries[p].compressedPath

\* C25: the counters of the summary describe the files of the run alone: when
\* a run is over, each counter is the number of this run's candidates that the
\* hook counted under it.
C25_CountersPerRun ==
  phase = "done" =>
    /\ cacheHits = Cardinality({ p \in files : outcome[p] = "hit" })
    /\ processedFiles =
         Cardinality({ p \in files : outcome[p] \in {"processed", "bigger", "skipped"}
                                      /\ countsProcessed(compressionConfig, result[p]) })
    /\ skippedFiles =
         Cardinality({ p \in files : outcome[p] \in {"processed", "bigger", "skipped"}
                                      /\ ~countsProcessed(compressionConfig, result[p]) })

\* C26: the settings stored with a cache entry are the format and the settings
\* object handed to the adapter that produced the entry's artifact: an entry
\* stored in this run has a fingerprint, and its config is the object the
\* branch of processFile passed to its adapter.
C26_FingerprintIsAdapterInput ==
  \A p \in files :
    ( /\ phase \in {"running", "done"}
      /\ cacheEnabled(compressionConfig)
      /\ outcome[p] \in {"processed", "bigger"}
      /\ p \in DOMAIN manifest.entries )
    => IF manifest.entries[p].settings = Null THEN FALSE
       ELSE ObjEq(manifest.entries[p].settings.config,
                  AdapterConfig(compressionConfig, Branch(p)))

\* C27: an entry the then-callback stores records the hash and the byte
\* length of the candidate as it was when the run started, and its artifact
\* and size.compressed are the candidate's content after processFile, however
\* the tasks of the candidates interleave.
C27_EntryRecordsRun ==
  [][ \A p \in files :
        ( /\ pc[p] = "settle"
          /\ pc'[p] = "done"
          /\ stores(compressionConfig, result[p]) )
        => LET e == manifest'.entries[p]
           IN  /\ e.sourceHash = Hash(atStart.disk[p])
               /\ e.size.original = ByteLen(atStart.disk[p])
               /\ e.compressedPath \in DOMAIN artifacts'
               /\ artifacts'[e.compressedPath] = disk'[p]
               /\ e.size.compressed = ByteLen(disk'[p])
               /\ disk'[p] = disk[p] ]_vars

C27_Witness ==
  \E p, q \in files :
    /\ p # q
    /\ phase = "running"
    /\ cacheEnabled(compressionConfig)
    /\ outcome[p] = "processed"
    /\ outcome[q] = "processed"
    /\ atStart.disk[p] # atStart.disk[q]
    /\ disk[p] # atStart.disk[p]
    /\ manifest.entries[p].sourceHash = Hash(atStart.disk[p])
    /\ artifacts[manifest.entries[p].compressedPath] = disk[p]
    /\ manifest.entries[q].sourceHash = Hash(atStart.disk[q])

\* C28: effect of a cache hit: when getCachedFile has returned the entry of p,
\* the hook leaves the artifact's bytes in the candidate, adds the entry's
\* sizes to the totals and one to the cache hits, and leaves the processed
\* and skipped counters and the manifest as they were.
C28_CacheHitEffect ==
  [][ \A p \in files :
        ( /\ p \in cur
          /\ pc[p] = "statted"
          /\ statOk[p]
          /\ pc'[p] = "done" )
        => /\ entry[p].compressedPath \in DOMAIN artifacts
           /\ IF entry[p].compressedPath \in DOMAIN artifacts
              THEN disk'[p] = artifacts[entry[p].compressedPath]
              ELSE FALSE
           /\ originalSizeTotal' = originalSizeTotal + entry[p].size.original
           /\ newSizeTotal' = newSizeTotal + entry[p].size.compressed
           /\ cacheHits' = cacheHits + 1
           /\ processedFiles' = processedFiles
           /\ skippedFiles' = skippedFiles
           /\ manifest' = manifest ]_vars

\* C29: getCachedFile on an entry whose hash and settings match and whose
\* artifact is missing returns null (the candidate goes on to processFile),
\* removes the entry from the manifest in memory and hands nothing to unlink.
C29_MissingArtifact ==
  [][ \A p \in files :
        ( /\ p \in cur
          /\ pc[p] = "statted"
          /\ ~statOk[p]
          /\ pc'[p] # "statted" )
        => /\ entry[p].sourceHash = Hash(originalContent[p])
           /\ JSONstringify(entry[p].settings) = JSONstringify(usedConfigOf(p))
           /\ pc'[p] = "compress"
           /\ outcome'[p] = "none"
           /\ p \notin DOMAIN manifest'.entries
           /\ pendingUnlinks' = pendingUnlinks
           /\ artifacts' = artifacts ]_vars

C29_Witness ==
  \E p \in files :
    /\ phase = "running"
    /\ cacheEnabled(compressionConfig)
    /\ pc[p] = "compress"
    /\ entry[p] # Null
    /\ entry[p].sourceHash = Hash(originalContent[p])
    /\ JSONstringify(entry[p].settings) = JSONstringify(usedConfigOf(p))
    /\ entry[p].compressedPath \notin DOMAIN artifacts
    /\ p \notin DOMAIN manifest.entries
    /\ pendingUnlinks = {}

\* the entries of the paths other than p are the same after the step
othersUnchanged(p) ==
  \A q \in files \ {p} :
    /\ q \in DOMAIN manifest.entries <=> q \in DOMAIN manifest'.entries
    /\ q \in DOMAIN manifest.entries => manifest'.entries[q] = manifest.entries[q]

\* manifest in memory, manifest.json and the artifacts are the same after the step
cacheUnchanged ==
  /\ manifest' = manifest
  /\ manifestFile' = manifestFile
  /\ artifacts' = artifacts

\* C30: getCachedFile changes nothing when it finds no entry and when it
\* returns the entry: the manifest in memory, manifest.json and the artifacts
\* stay as they are in each of its steps; whatever it returns, the entries of
\* the other paths stay as they are.
C30_LookupFrame ==
  [][ \A p \in files :
        /\ ( /\ phase = "running"
             /\ cacheEnabled(compressionConfig)
             /\ cur = {}
             /\ candidates # << >>
             /\ Head(candidates) = p
             /\ candidates' = Tail(candidates) )
           => /\ othersUnchanged(p)
              /\ getCachedFileSync(manifest.entries, p, Hash(disk[p]), usedConfigOf(p))
                   \in {"absent", "stat"} => cacheUnchanged
        /\ (p \in cur /\ pc[p] = "stat" /\ pc'[p] = "statted") => cacheUnchanged
        /\ (p \in cur /\ pc[p] = "statted" /\ pc'[p] # "statted")
           => /\ othersUnchanged(p)
              /\ statOk[p] => cacheUnchanged ]_vars

C30_Witness ==
  \E p, q \in files :
    /\ p # q
    /\ phase = "running"
    /\ outcome[p] = "hit"
    /\ p \in DOMAIN manifest.entries
    /\ pc[q] = "compress"
    /\ entry[q] # Null
    /\ q \notin DOMAIN manifest.entries

\* the step of the loop that looks p up in the cache
lookupStep(p) ==
  /\ phase = "running"
  /\ cacheEnabled(compressionConfig)
  /\ cur = {}
  /\ candidates # << >>
  /\ Head(candidates) = p
  /\ candidates' = Tail(candidates)

\* the thread pool carries out the unlink of a file that is not there
failedUnlink ==
  \E a \in pendingUnlinks \ DOMAIN artifacts : pendingUnlinks' = pendingUnlinks \ {a}

\* C31: invalidateCache removes the entry of the path at once, whether the
\* artifact is there to be deleted or not, and the run goes on; an unlink
\* that fails changes nothing of the run: no error reaches the hook.
C31_InvalidateBestEffort ==
  [][ /\ \A p \in files :
           ( /\ lookupStep(p)
             /\ getCachedFileSync(manifest.entries, p, Hash(disk[p]), usedConfigOf(p))
                  = "invalidate" )
           => /\ p \notin DOMAIN manifest'.entries
              /\ manifest.entries[p].compressedPath \in pendingUnlinks'
              /\ phase' = "running"
              /\ pc'[p] = "compress"
      /\ failedUnlink
           => /\ phase' = phase
              /\ manifest' = manifest
              /\ artifacts' = artifacts
              /\ << candidates, cur, pc, result, outcome >>' = << candidates, cur, pc, result, outcome >> ]_vars

C31_Witness ==
  \E p \in files :
    /\ phase = "running"
    /\ cacheEnabled(compressionConfig)
    /\ invalidated(p)
    /\ pc[p] = "compress"
    /\ p \notin DOMAIN manifest.entries
    /\ entry[p].compressedPath \in pendingUnlinks
    /\ entry[p].compressedPath \notin DOMAIN artifacts

\* C32: after saveToCache(path, hash, originalLength, bytes, settings) the
\* file <hash>.<extension of path> of the cache directory holds bytes, the
\* entry of path has this hash, this file, these settings, originalLength and
\* the length of bytes, whatever entry path had before; the entries of the
\* other paths and the other artifacts are as they were.
C32_SaveToCache ==
  [][ \A p \in files :
        ( /\ pc[p] = "settle"
          /\ pc'[p] = "done"
          /\ stores(compressionConfig, result[p]) )
        => LET hash == Hash(originalContent[p])
               bytes == disk[p]
               file == << hash, Ext(p) >>
               e == manifest'.entries[p]
           IN  /\ file \in DOMAIN artifacts'
               /\ artifacts'[file] = bytes
               /\ \A a \in (DOMAIN artifacts \cup DOMAIN artifacts') \ {file} :
                    a \in DOMAIN artifacts /\ a \in DOMAIN artifacts' /\ artifacts'[a] = artifacts[a]
               /\ e.sourceHash = hash
               /\ e.compressedPath = file
               /\ e.settings = usedConfigOf(p)
               /\ e.size.original = ByteLen(originalContent[p])
               /\ e.size.compressed = ByteLen(bytes)
               /\ othersUnchanged(p) ]_vars

C32_Witness ==
  \E p, q \in files :
    /\ p # q
    /\ phase = "running"
    /\ cacheEnabled(compressionConfig)
    /\ outcome[p] = "processed"
    /\ entry[p] # Null
    /\ manifest.entries[p] # entry[p]
    /\ manifest.entries[p].compressedPath \in DOMAIN artifacts
    /\ artifacts[manifest.entries[p].compressedPath] = disk[p]
    /\ q \in DOMAIN manifest.entries
    /\ pc[q] = "idle"

\* the entry of q is gone or another one after the step
entryTouched(q) ==
  \/ q \notin DOMAIN manifest'.entries
  \/ manifest'.entries[q] # manifest.entries[q]

\* C33: a run leaves the entry of a path that is no candidate of the run as
\* the manifest file had it when the run started, in memory and in the file
\* it writes; within a run an entry goes only when the lookup of its own path
\* finds a hash or settings mismatch or a missing artifact, and changes only
\* when its own path is stored anew.
C33_NoExpiry ==
  /\ [](\A q \in AllPaths \ files :
          ( /\ phase \in {"running", "done"}
            /\ cacheEnabled(compressionConfig)
            /\ q \in DOMAIN atStart.manifestFile.entries )
          => /\ q \in DOMAIN manifest.entries
             /\ manifest.entries[q] = atStart.manifestFile.entries[q]
             /\ q \in DOMAIN manifestFile.entries
             /\ manifestFile.entries[q] = atStart.manifestFile.entries[q])
  /\ [][ (phase = "running" /\ phase' = "running" /\ cacheEnabled(compressionConfig))
         => \A q \in DOMAIN manifest.entries :
              entryTouched(q)
              => /\ q \in files
                 /\ \/ lookupStep(q) /\ invalidated(q)'
                    \/ q \in cur /\ pc[q] = "statted" /\ ~statOk[q]
                    \/ pc[q] = "settle" /\ pc'[q] = "done" ]_vars

C33_Witness ==
  \E q \in AllPaths \ files :
    \E p \in files :
      /\ phase = "done"
      /\ cacheEnabled(compressionConfig)
      /\ q \in DOMAIN manifestFile.entries
      /\ invalidated(p)
      /\ outcome[p] = "processed"

\* C34: scheduling independence: what a run leaves behind does not depend on
\* the order in which the operations of the thread pool complete.  A lookup
\* that waits for its stat, or has got it and is about to read the artifact,
\* therefore never has an unlink of that very file pending next to it: which
\* of the two is carried out first would decide between a cache hit, a miss
\* and an exception.
C34_SchedulingIndependent ==
  \A p \in files :
    (phase = "running" /\ pc[p] \in {"stat", "statted"})
      => entry[p].compressedPath \notin pendingUnlinks

C36_ListsEveryFileOnce ==
  subTree # Unset
    => /\ subTree \notin {ENOENT, RangeError}
       /\ DOMAIN subTree.list = { e.path : e \in { f \in tree : ~f.dir } }
       /\ \A path \in DOMAIN subTree.list : subTree.list[path] = 1

\* C37: at the end of a run with the cache enabled, once no deletion of an
\* artifact is outstanding any more, every entry the run stored or served
\* as a cache hit names an artifact that exists and is as long as the entry
\* says.
C37_EntriesHaveArtifacts ==
  (phase = "done" /\ cacheEnabled(compressionConfig) /\ pendingUnlinks = {})
    => \A p \in files :
         outcome[p] \in {"hit", "processed", "bigger"}
           => /\ p \in DOMAIN manifest.entries
              /\ manifest.entries[p].compressedPath \in DOMAIN artifacts
              /\ ByteLen(artifacts[manifest.entries[p].compressedPath])
                   = manifest.entries[p].size.compressed

\* C38: a completed run of an instance that had counted nothing before (a
\* freshly created one) has every candidate in exactly one category:
\* processed, skipped and cache hits add up to the number of candidates,
\* with the cache enabled or disabled.
C38_EveryCandidateCounted ==
  (phase = "done" /\ atStart.counted = 0)
    => processedFiles + skippedFiles + cacheHits = Cardinality(files)

C38_Witness ==
  /\ phase = "done"
  /\ atStart.counted = 0
  /\ runNo = 2
  /\ cacheHits = 1
  /\ processedFiles + skippedFiles = 1
  /\ Cardinality(files) = 2

\* C39: whatever manifest.json holds, the manifest in memory after
\* initialize has a version and a map of entries, and no lookup fails on
\* the shape of the manifest.
C39_WellFormedAfterInitialize ==
  (phase \in {"configured", "running", "crashed"} /\ cacheEnabled(compressionConfig))
    => /\ manifest # Null
       /\ {"version", "entries"} \subseteq DOMAIN manifest
       /\ \A p \in files : outcome[p] # "threw"

====
